---- MODULE Spec2Model ----
(***************************************************************************)
(* Model of src/app/api/achievement/route.ts: the Lookup Service (GET and  *)
(* its text coercion) and the browser side (Home, Achievement).            *)
(*                                                                         *)
(* Texts are sequences of characters; a character is a TLA+ string.  The   *)
(* text operators cover every text without a backslash (JSON escapes are   *)
(* not modelled).                                                          *)
(***************************************************************************)
EXTENDS Integers, Sequences, FiniteSets, TLC

\* ------------------------------------------------------------------------
\* Characters
\* ------------------------------------------------------------------------
QUOTE == "\""
BULLET == "bullet"
LF == "\n"
CR == "\r"
TAB == "\t"
SP == " "
Digits == {"0", "1", "2", "3", "4", "5", "6", "7", "8", "9"}
\* JSON insignificant whitespace
JsonWs == {SP, TAB, LF, CR}
\* ECMAScript WhiteSpace + LineTerminator (\s in a RegExp, String.trim)
JsWs == {SP, TAB, LF, CR, "\f"}
\* characters JSON forbids unescaped inside a string
JsonCtl == {TAB, LF, CR, "\f"}

DigitVal(c) ==
  CASE c = "0" -> 0 [] c = "1" -> 1 [] c = "2" -> 2 [] c = "3" -> 3
    [] c = "4" -> 4 [] c = "5" -> 5 [] c = "6" -> 6 [] c = "7" -> 7
    [] c = "8" -> 8 [] c = "9" -> 9

Min(a, b) == IF a < b THEN a ELSE b

\* Array.prototype.slice(0, n)
Slice0(s, n) == SubSeq(s, 1, Min(n, Len(s)))

\* s[i..], the empty text when i is past the end
From(s, i) == IF i > Len(s) THEN <<>> ELSE SubSeq(s, i, Len(s))

\* first index >= i whose character is not in set (Len(s)+1 when none)
RECURSIVE SkipSet(_, _, _)
SkipSet(s, i, set) ==
  IF i <= Len(s) /\ s[i] \in set THEN SkipSet(s, i + 1, set) ELSE i

\* ------------------------------------------------------------------------
\* JSON.parse, as far as coerceToStringArray looks at its result: whether
\* the text is valid JSON, whether the value is an array, and the array's
\* string elements in order.
\* ------------------------------------------------------------------------
JsonFail == [ok |-> FALSE, end |-> 0, kind |-> "none", str |-> <<>>, elems |-> <<>>]
JsonVal(kind, end, str, elems) ==
  [ok |-> TRUE, end |-> end, kind |-> kind, str |-> str, elems |-> elems]

\* the string whose opening quote is before i; acc is the content so far
RECURSIVE JsonStringRest(_, _, _)
JsonStringRest(s, i, acc) ==
  IF i > Len(s) THEN JsonFail
  ELSE IF s[i] = QUOTE THEN JsonVal("string", i + 1, acc, <<>>)
  ELSE IF s[i] \in JsonCtl \/ s[i] = "\\" THEN JsonFail
  ELSE JsonStringRest(s, i + 1, Append(acc, s[i]))

\* number = -? (0 | [1-9][0-9]*) (\. [0-9]+)? ([eE] [+-]? [0-9]+)?
\* each part is given the index where it starts, 0 once the number is malformed
NumberExpDigits(s, x) ==
  IF x <= Len(s) /\ s[x] \in Digits
  THEN JsonVal("number", SkipSet(s, x, Digits), <<>>, <<>>) ELSE JsonFail
NumberExp(s, c) ==
  IF c = 0 THEN JsonFail
  ELSE IF c <= Len(s) /\ s[c] \in {"e", "E"}
       THEN NumberExpDigits(s, IF c + 1 <= Len(s) /\ s[c + 1] \in {"+", "-"} THEN c + 2 ELSE c + 1)
  ELSE JsonVal("number", c, <<>>, <<>>)
NumberFrac(s, b) ==
  IF b = 0 THEN JsonFail
  ELSE IF b <= Len(s) /\ s[b] = "."
       THEN NumberExp(s, IF b + 1 <= Len(s) /\ s[b + 1] \in Digits
                         THEN SkipSet(s, b + 1, Digits) ELSE 0)
  ELSE NumberExp(s, b)
NumberInt(s, a) ==
  NumberFrac(s, IF a > Len(s) \/ s[a] \notin Digits THEN 0
                ELSE IF s[a] = "0" THEN a + 1
                ELSE SkipSet(s, a, Digits))
JsonNumber(s, i) == NumberInt(s, IF s[i] = "-" THEN i + 1 ELSE i)

\* the literals true, false, null
IsWordAt(s, i, w) == i + Len(w) - 1 <= Len(s) /\ SubSeq(s, i, i + Len(w) - 1) = w
JsonLiteral(s, i) ==
  IF IsWordAt(s, i, <<"t", "r", "u", "e">>) THEN JsonVal("literal", i + 4, <<>>, <<>>)
  ELSE IF IsWordAt(s, i, <<"f", "a", "l", "s", "e">>) THEN JsonVal("literal", i + 5, <<>>, <<>>)
  ELSE IF IsWordAt(s, i, <<"n", "u", "l", "l">>) THEN JsonVal("literal", i + 4, <<>>, <<>>)
  ELSE JsonFail

RECURSIVE JsonParseValue(_, _)
RECURSIVE JsonElements(_, _, _)
RECURSIVE JsonMembers(_, _)

\* after an element v: "," and the next element, or "]"; acc holds the
\* string elements
ElementsSep(s, j, acc) ==
  IF j > Len(s) THEN JsonFail
  ELSE IF s[j] = "," THEN JsonElements(s, SkipSet(s, j + 1, JsonWs), acc)
  ELSE IF s[j] = "]" THEN JsonVal("array", j + 1, <<>>, acc)
  ELSE JsonFail
ElementsNext(s, v, acc) ==
  IF ~v.ok THEN JsonFail
  ELSE ElementsSep(s, SkipSet(s, v.end, JsonWs),
                   IF v.kind = "string" THEN Append(acc, v.str) ELSE acc)

\* the elements of an array from s[i] on
JsonElements(s, i, acc) == ElementsNext(s, JsonParseValue(s, i), acc)

\* after a member's value v: "," and the next member, or "}"
MembersSep(s, j) ==
  IF j > Len(s) THEN JsonFail
  ELSE IF s[j] = "," THEN JsonMembers(s, SkipSet(s, j + 1, JsonWs))
  ELSE IF s[j] = "}" THEN JsonVal("object", j + 1, <<>>, <<>>)
  ELSE JsonFail
MembersValue(s, v) ==
  IF ~v.ok THEN JsonFail ELSE MembersSep(s, SkipSet(s, v.end, JsonWs))
MembersColon(s, c) ==
  IF c <= Len(s) /\ s[c] = ":"
  THEN MembersValue(s, JsonParseValue(s, SkipSet(s, c + 1, JsonWs)))
  ELSE JsonFail
MembersKey(s, k) ==
  IF ~k.ok THEN JsonFail ELSE MembersColon(s, SkipSet(s, k.end, JsonWs))

\* the members of an object from s[i] on
JsonMembers(s, i) ==
  IF i <= Len(s) /\ s[i] = QUOTE
  THEN MembersKey(s, JsonStringRest(s, i + 1, <<>>))
  ELSE JsonFail

\* after "[" or "{" and whitespace
ArrayAt(s, j) ==
  IF j <= Len(s) /\ s[j] = "]" THEN JsonVal("array", j + 1, <<>>, <<>>)
  ELSE JsonElements(s, j, <<>>)
ObjectAt(s, j) ==
  IF j <= Len(s) /\ s[j] = "}" THEN JsonVal("object", j + 1, <<>>, <<>>)
  ELSE JsonMembers(s, j)

\* the value that starts at s[i] (i is not whitespace)
JsonParseValue(s, i) ==
  IF i > Len(s) THEN JsonFail
  ELSE IF s[i] = "[" THEN ArrayAt(s, SkipSet(s, i + 1, JsonWs))
  ELSE IF s[i] = "{" THEN ObjectAt(s, SkipSet(s, i + 1, JsonWs))
  ELSE IF s[i] = QUOTE THEN JsonStringRest(s, i + 1, <<>>)
  ELSE IF s[i] \in Digits \cup {"-"} THEN JsonNumber(s, i)
  ELSE JsonLiteral(s, i)

\* nothing but whitespace may follow the value v
JsonWhole(text, v) ==
  IF v.ok /\ SkipSet(text, v.end, JsonWs) > Len(text) THEN v ELSE JsonFail

\* JSON.parse(text): ok is FALSE where JSON.parse throws
JsonParse(text) == JsonWhole(text, JsonParseValue(text, SkipSet(text, 1, JsonWs)))

\* ------------------------------------------------------------------------
\* normalizeItem and coerceToStringArray
\* ------------------------------------------------------------------------
RECURSIVE TrimEnd(_)
TrimEnd(s) ==
  IF Len(s) > 0 /\ s[Len(s)] \in JsWs THEN TrimEnd(SubSeq(s, 1, Len(s) - 1)) ELSE s

\* String.prototype.trim
Trim(s) == TrimEnd(From(s, SkipSet(s, 1, JsWs)))

\* s.replace(/^\d+\.|^[\-•]\s*/, ""): d is where the leading digits end
StripMarker(s, d) ==
  IF d > 1 /\ d <= Len(s) /\ s[d] = "." THEN From(s, d + 1)
  ELSE IF Len(s) > 0 /\ s[1] \in {"-", BULLET} THEN From(s, SkipSet(s, 2, JsWs))
  ELSE s

\* s.replace(/^\d+\.|^[\-•]\s*/, "").trim()
normalizeItem(s) == Trim(StripMarker(s, SkipSet(s, 1, Digits)))

\* .map(normalizeItem)
NormalizeAll(s) == [i \in 1..Len(s) |-> normalizeItem(s[i])]

\* .map((s) => s.trim())
TrimAll(s) == [i \in 1..Len(s) |-> Trim(s[i])]

\* Array.prototype.filter(Boolean) on strings: the non-empty ones
RECURSIVE FilterNonEmpty(_)
FilterNonEmpty(s) ==
  IF s = <<>> THEN <<>>
  ELSE IF Head(s) = <<>> THEN FilterNonEmpty(Tail(s))
  ELSE <<Head(s)>> \o FilterNonEmpty(Tail(s))

\* length of the match of /\r?\n|•|-\s+/ that starts at s[q], 0 when none
SepLen(s, q) ==
  IF s[q] = CR /\ q + 1 <= Len(s) /\ s[q + 1] = LF THEN 2
  ELSE IF s[q] = LF THEN 1
  ELSE IF s[q] = BULLET THEN 1
  ELSE IF s[q] = "-" /\ q + 1 <= Len(s) /\ s[q + 1] \in JsWs
       THEN SkipSet(s, q + 1, JsWs) - q
  ELSE 0

\* text.split(/\r?\n|•|-\s+/): p is where the current piece starts, q the scan
RECURSIVE SplitFrom(_, _, _)
SplitAt(s, p, q, n) ==
  IF n = 0 THEN SplitFrom(s, p, q + 1)
  ELSE << SubSeq(s, p, q - 1) >> \o SplitFrom(s, q + n, q + n)
SplitFrom(s, p, q) ==
  IF q > Len(s) THEN << From(s, p) >> ELSE SplitAt(s, p, q, SepLen(s, q))

Split(s) == SplitFrom(s, 1, 1)

\* text.match(/\[[\s\S]*\]/): from the first "[" to the last "]"
FirstOpen(s) == IF \E i \in 1..Len(s) : s[i] = "["
                THEN CHOOSE i \in 1..Len(s) : s[i] = "[" /\ \A j \in 1..(i - 1) : s[j] # "["
                ELSE 0
LastClose(s) == IF \E i \in 1..Len(s) : s[i] = "]"
                THEN CHOOSE i \in 1..Len(s) : s[i] = "]" /\ \A j \in (i + 1)..Len(s) : s[j] # "]"
                ELSE 0
HasMatch(s) == FirstOpen(s) > 0 /\ LastClose(s) > FirstOpen(s)
Match0(s) == SubSeq(s, FirstOpen(s), LastClose(s))

\* the line/bullet split of coerceToStringArray
FallbackSplit(text) ==
  Slice0(NormalizeAll(FilterNonEmpty(TrimAll(Split(text)))), 10)

\* lines 99-116: part is JSON.parse(match[0]) when there is a match
CoercePart(text, part) ==
  IF part.ok /\ part.kind = "array" THEN NormalizeAll(part.elems)
  ELSE FallbackSplit(text)

\* lines 92-116: whole is JSON.parse(text)
CoerceWhole(text, whole) ==
  IF whole.ok /\ whole.kind = "array" THEN NormalizeAll(whole.elems)
  ELSE CoercePart(text, IF HasMatch(text) THEN JsonParse(Match0(text)) ELSE JsonFail)

coerceToStringArray(text) == CoerceWhole(text, JsonParse(text))

\* ------------------------------------------------------------------------
\* Number.parseInt(text, 10)
\* ------------------------------------------------------------------------
\* a JavaScript number as GET uses it: NaN, or an integer
NaN == [nan |-> TRUE, val |-> 0]
Num(v) == [nan |-> FALSE, val |-> v]

RECURSIVE DecimalValue(_, _)
DecimalValue(ds, acc) ==
  IF ds = <<>> THEN acc ELSE DecimalValue(Tail(ds), 10 * acc + DigitVal(Head(ds)))

\* leading whitespace, an optional sign, then the longest run of digits;
\* NaN when there is no digit.  (Infinity needs more than 308 digits.)
\* the digits are text[b..e-1]
ParseIntDigits(text, neg, b, e) ==
  IF e = b THEN NaN
  ELSE IF neg THEN Num(0 - DecimalValue(SubSeq(text, b, e - 1), 0))
  ELSE Num(DecimalValue(SubSeq(text, b, e - 1), 0))
ParseIntSigned(text, neg, b) == ParseIntDigits(text, neg, b, SkipSet(text, b, Digits))
ParseIntAt(text, a) ==
  ParseIntSigned(text, a <= Len(text) /\ text[a] = "-",
                 IF a <= Len(text) /\ text[a] \in {"+", "-"} THEN a + 1 ELSE a)
ParseInt(text) == ParseIntAt(text, SkipSet(text, 1, JsWs))

\* ------------------------------------------------------------------------
\* Bounds and inputs of the Lookup Service
\* ------------------------------------------------------------------------
CACHE_TTL_MS == 1000 * 60 * 60 * 24 * 7

MaxYearLen == 2
MaxTicks == 2
MaxGets == 2
MaxSlots == 2
MaxUpstreamItems == 6

Slots == 1..MaxSlots

RECURSIVE TextsUpTo(_, _)
TextsUpTo(chars, n) ==
  IF n = 0 THEN { <<>> }
  ELSE LET shorter == TextsUpTo(chars, n - 1)
       IN shorter \cup { Append(t, c) : t \in shorter, c \in chars }

YearChars == {"1", "-", "a"}
\* url.searchParams.get("year"): null when the parameter is absent
YearParams ==
  { [has |-> FALSE, text |-> <<>>] }
    \cup { [has |-> TRUE, text |-> t] : t \in TextsUpTo(YearChars, MaxYearLen) }

Absent == "<absent>"
ForceParams == {Absent, "1", "true", "0", "false"}

\* how far Date.now() moves between two events
ClockSteps == {1, CACHE_TTL_MS - 1}

Letter(i) ==
  CASE i = 1 -> "A" [] i = 2 -> "B" [] i = 3 -> "C" [] i = 4 -> "D"
    [] i = 5 -> "E" [] i = 6 -> "F" [] i = 7 -> "G" [] OTHER -> "H"

\* ["A","B",...] with n elements
RECURSIVE JsonArrayBody(_, _)
JsonArrayBody(i, n) ==
  IF i > n THEN <<>>
  ELSE (IF i > 1 THEN <<",">> ELSE <<>>) \o <<QUOTE, Letter(i), QUOTE>> \o JsonArrayBody(i + 1, n)
JsonArrayText(n) == <<"[">> \o JsonArrayBody(1, n) \o <<"]">>

\* "1. A\n1. B\n..." with n lines
RECURSIVE LinesText(_, _)
LinesText(i, n) ==
  IF i > n THEN <<>>
  ELSE (IF i > 1 THEN <<LF>> ELSE <<>>) \o <<"1", ".", SP, Letter(i)>> \o LinesText(i + 1, n)

\* the texts the upstream model may answer with: none, one or many entries,
\* as a JSON array, as a JSON array after some prose, or as numbered lines;
\* the empty text (LinesText(1, 0)), whitespace, and an array without strings
UpstreamCounts == {0, 1, MaxUpstreamItems}
UpstreamTexts ==
  { JsonArrayText(n) : n \in UpstreamCounts }
    \cup { <<"O", "k", ":", SP>> \o JsonArrayText(n) : n \in UpstreamCounts }
    \cup { LinesText(1, n) : n \in UpstreamCounts }
    \cup { <<SP>>, <<LF, SP>>, <<"[", "1", "]">> }

\* the texts coerceToStringArray is exercised with on its own: the three
\* texts of its description, a text with an array and a second pair of
\* brackets, twelve numbered lines, and every text of up to MaxTextLen
\* characters that brackets, markers, a letter and a line break can form
MaxTextLen == 3
CoerceChars == {"[", "]", "1", ".", "-", "A", LF}
TextArray ==
  <<"[", QUOTE, "A", QUOTE, ",", QUOTE, "B", QUOTE, "]">>
TextIntro ==
  <<"I", "n", "t", "r", "o", ":", SP, "[", QUOTE, "1", ".", SP, "L", "a", "n", "d",
    "e", "d", SP, "o", "n", SP, "t", "h", "e", SP, "m", "o", "o", "n", QUOTE, ",", SP,
    QUOTE, "-", SP, "C", "u", "r", "e", "d", SP, "a", SP, "d", "i", "s", "e", "a", "s",
    "e", QUOTE, "]">>
TextLines ==
  <<"1", ".", SP, "F", "i", "r", "s", "t", LF, "2", ".", SP, "S", "e", "c", "o", "n",
    "d", LF, "3", ".", SP, "T", "h", "i", "r", "d">>
TextTwoBrackets ==
  <<"O", "k", ":", SP, "[", QUOTE, "A", QUOTE, "]", SP, "[", "x", "]">>
CoerceTexts ==
  {TextArray, TextIntro, TextLines, TextTwoBrackets, LinesText(1, 12)}
    \cup TextsUpTo(CoerceChars, MaxTextLen)

\* data?.candidates?.[0]?.content?.parts?.[0]?.text
\*   "undefined": the path is missing or holds a falsy non-string
\*   "nonstring": the path holds a truthy value that is not a string
Payloads ==
  { [kind |-> "undefined", text |-> <<>>], [kind |-> "nonstring", text |-> <<>>] }
    \cup { [kind |-> "string", text |-> t] : t \in UpstreamTexts }

\* ------------------------------------------------------------------------
\* State
\* ------------------------------------------------------------------------
VARIABLES
  YEAR_CACHE,   \* the module-level Map: year -> [at, items]
  apiKey,       \* process.env.GEMINI_API_KEY is set and non-empty
  clock,        \* Date.now()
  ticks,        \* how many times the clock has moved
  nGets,        \* how many GETs have arrived
  req,          \* the GET handler in each slot; id numbers the requests
  yearIndex,    \* Home: index of the displayed year
  items,        \* Achievement: the displayed items
  status,       \* Achievement: "idle", "loading", "error" or "success"
  cacheRef,     \* Achievement: cacheRef.current, year -> items
  fx,           \* Achievement: the runs of the effect, oldest first
  nNav,         \* how many times the year has changed
  isExiting,    \* Home: the card is sliding out and the exit timer is pending
  exitDir,      \* Home: "left", "right" or "none" (null)
  isEntering    \* Home: the card of the new year is sliding in

serverVars == <<YEAR_CACHE, apiKey, clock, ticks, nGets, req>>
swipeVars == <<isExiting, exitDir, isEntering>>
clientVars == <<yearIndex, items, status, cacheRef, fx, nNav, isExiting, exitDir, isEntering>>

NoResp == [status |-> 0, error |-> "", year |-> 0, items |-> <<>>]
\* NextResponse.json({ year, items })
Ok200(year, list) == [status |-> 200, error |-> "", year |-> year, items |-> list]
\* NextResponse.json({ error }, { status })
ErrResp(code, error) == [status |-> code, error |-> error, year |-> 0, items |-> <<>>]

\* rawText before line 71 has run
NoPayload == [kind |-> "unset", text |-> <<>>]

IdleReq ==
  [pc |-> "idle", id |-> 0, yearParam |-> [has |-> FALSE, text |-> <<>>], forceParam |-> Absent,
   year |-> NaN, force |-> FALSE, now |-> 0, calls |-> 0, rawText |-> NoPayload,
   resp |-> NoResp]

ServerInit ==
  /\ YEAR_CACHE = <<>>
  /\ apiKey \in BOOLEAN
  /\ clock = 0
  /\ ticks = 0
  /\ nGets = 0
  /\ req = [r \in Slots |-> IdleReq]

\* the environment sets or unsets GEMINI_API_KEY; GET reads it on every
\* request (line 33)
SetApiKey(b) ==
  /\ apiKey' = b
  /\ apiKey # b
  /\ UNCHANGED <<YEAR_CACHE, clock, ticks, nGets, req, clientVars>>

\* time passes
Tick(d) ==
  /\ ticks < MaxTicks
  /\ ticks' = ticks + 1
  /\ clock' = clock + d
  /\ UNCHANGED <<YEAR_CACHE, apiKey, nGets, req, clientVars>>

\* !Number.isFinite(year) || year < 0
InvalidYear(year) == year.nan \/ year.val < 0

\* an entry exactly as old as the TTL still counts
CacheHitInclusive(cache, year, force, now) ==
  /\ ~force
  /\ year \in DOMAIN cache
  /\ now - cache[year].at <= CACHE_TTL_MS

\* the age test the wrong way round
CacheHitFlipped(cache, year, force, now) ==
  /\ ~force
  /\ year \in DOMAIN cache
  /\ now - cache[year].at > CACHE_TTL_MS

\* !force && cached && now - cached.at < CACHE_TTL_MS
CacheHit(cache, year, force, now) ==
  /\ ~force
  /\ year \in DOMAIN cache
  /\ now - cache[year].at < CACHE_TTL_MS

\* only "1" asks for a refresh
IsForceOnlyOne(forceParam) == forceParam = "1"

\* forceParam === "1" || forceParam === "true"
IsForce(forceParam) == forceParam = "1" \/ forceParam = "true"

\* the credential is never found missing
MissingKeyNever(key) == FALSE

\* !apiKey
MissingKey(key) == ~key

\* GET up to its first await: lines 15-63
GetStart(r, yearParam, forceParam) ==
  /\ req[r].pc \in {"idle", "done"}
  /\ nGets < MaxGets
  /\ nGets' = nGets + 1
  /\ LET year == ParseInt(IF yearParam.has THEN yearParam.text ELSE <<>>)
         force == IsForce(forceParam)
         now == clock
         y == year.val
         h == [pc |-> "done", id |-> nGets + 1, yearParam |-> yearParam, forceParam |-> forceParam,
               year |-> year, force |-> force, now |-> 0, calls |-> 0,
               rawText |-> NoPayload, resp |-> NoResp]
     IN req' = [req EXCEPT ![r] =
          IF InvalidYear(year)
            THEN [h EXCEPT !.resp = ErrResp(400, "Invalid or missing year")]
          ELSE IF CacheHit(YEAR_CACHE, y, force, now)
            THEN [h EXCEPT !.now = now, !.resp = Ok200(y, YEAR_CACHE[y].items)]
          ELSE IF MissingKey(apiKey)
            THEN [h EXCEPT !.now = now, !.resp = ErrResp(500, "Server missing GEMINI_API_KEY")]
          ELSE [h EXCEPT !.now = now, !.pc = "fetch", !.calls = 1]]
  /\ UNCHANGED <<YEAR_CACHE, apiKey, clock, ticks, clientVars>>

\* a rejected fetch is tried once more
FetchSettledRetry(r, outcome) ==
  /\ req[r].pc = "fetch"
  /\ req' = [req EXCEPT ![r] =
       CASE outcome = "reject" ->
              IF @.calls < 2 THEN [@ EXCEPT !.calls = @ + 1]
              ELSE [@ EXCEPT !.pc = "done", !.resp = ErrResp(500, "Unexpected server error")]
         [] outcome = "ok"     -> [@ EXCEPT !.pc = "json"]
         [] outcome = "notok"  -> [@ EXCEPT !.pc = "text"]]
  /\ UNCHANGED <<YEAR_CACHE, apiKey, clock, ticks, nGets, clientVars>>

\* await fetch(GEMINI_ENDPOINT, ...) settles: line 55, then the test of line 65
FetchSettled(r, outcome) ==
  /\ req[r].pc = "fetch"
  /\ req' = [req EXCEPT ![r] =
       CASE outcome = "reject" -> [@ EXCEPT !.pc = "done", !.resp = ErrResp(500, "Unexpected server error")]
         [] outcome = "ok"     -> [@ EXCEPT !.pc = "json"]
         [] outcome = "notok"  -> [@ EXCEPT !.pc = "text"]]
  /\ UNCHANGED <<YEAR_CACHE, apiKey, clock, ticks, nGets, clientVars>>

\* await response.text() settles: lines 66-67
TextSettled(r, resolved) ==
  /\ req[r].pc = "text"
  /\ req' = [req EXCEPT ![r] =
       [@ EXCEPT !.pc = "done",
                 !.resp = IF resolved THEN ErrResp(502, "Upstream error")
                          ELSE ErrResp(500, "Unexpected server error")]]
  /\ UNCHANGED <<YEAR_CACHE, apiKey, clock, ticks, nGets, clientVars>>

\* the list as parsed, not cut
ItemsUncut(rawText) == coerceToStringArray(rawText)

\* coerceToStringArray(rawText).slice(0, 5)
Items(rawText) == Slice0(coerceToStringArray(rawText), 5)

\* Items, tabulated over the upstream texts
ItemsOf == [t \in UpstreamTexts \cup CoerceTexts |-> Items(t)]

\* the write drops the entries of the other years
CacheSetAlone(cache, year, now, list) == (year :> [at |-> now, items |-> list])

\* the first entry for a year is kept
CacheSetIfAbsent(cache, year, now, list) ==
  IF year \in DOMAIN cache THEN cache ELSE (year :> [at |-> now, items |-> list]) @@ cache

\* YEAR_CACHE.set(year, { at: now, items })
CacheSet(cache, year, now, list) == (year :> [at |-> now, items |-> list]) @@ cache

\* !rawText: undefined, or the empty string
NoRawText(payload) ==
  payload.kind = "undefined" \/ (payload.kind = "string" /\ payload.text = <<>>)

\* no list counts as empty
IsEmptyListNever(list) == FALSE

\* items.length === 0
IsEmptyList(list) == Len(list) = 0

\* await response.json() settles: lines 70-84
JsonSettled(r, resolved, payload) ==
  /\ req[r].pc = "json"
  /\ LET list == IF payload.kind = "string" THEN ItemsOf[payload.text] ELSE <<>>
         outcome ==
           IF ~resolved THEN "throw"
           ELSE IF NoRawText(payload) THEN "nocontent"
           ELSE IF payload.kind = "nonstring" THEN "throw"
           ELSE IF IsEmptyList(list) THEN "empty"
           ELSE "ok"
     IN /\ req' = [req EXCEPT ![r] =
             [@ EXCEPT !.pc = "done",
                       !.rawText = IF resolved THEN payload ELSE NoPayload,
                       !.resp = CASE outcome = "throw" -> ErrResp(500, "Unexpected server error")
                                  [] outcome = "nocontent" -> ErrResp(502, "No content returned")
                                  [] outcome = "empty" -> ErrResp(502, "Empty content")
                                  [] outcome = "ok" -> Ok200(req[r].year.val, list)]]
        /\ YEAR_CACHE' = IF outcome = "ok"
                         THEN CacheSet(YEAR_CACHE, req[r].year.val, req[r].now, list)
                         ELSE YEAR_CACHE
  /\ UNCHANGED <<apiKey, clock, ticks, nGets, clientVars>>

vars == <<YEAR_CACHE, apiKey, clock, ticks, nGets, req,
          yearIndex, items, status, cacheRef, fx, nNav, isExiting, exitDir, isEntering>>

\* ------------------------------------------------------------------------
\* The browser side: Home and Achievement
\* ------------------------------------------------------------------------
START_YEAR == 1800
END_YEAR == 2025

MaxNav == 2

\* years[i] where i is not an index of years: undefined
UndefinedYear == 0

\* years[yearIndex]
YearAt(i) == IF i \in 0..(END_YEAR - START_YEAR) THEN START_YEAR + i ELSE UndefinedYear
currentYear == YearAt(yearIndex)

\* what the Lookup Service's body may hold: data.items is an array, or not
ClientItemLists == { <<>>, << <<"A">> >>, << <<"B">>, <<"C">> >> }
LookupBodies ==
  { [isArray |-> FALSE, items |-> <<>>] }
    \cup { [isArray |-> TRUE, items |-> l] : l \in ClientItemLists }

ClientInit ==
  /\ yearIndex = END_YEAR - START_YEAR
  /\ items = <<>>
  /\ status = "idle"
  /\ cacheRef = <<>>
  /\ fx = <<>>
  /\ nNav = 0
  /\ isExiting = FALSE
  /\ exitDir = "none"
  /\ isEntering = FALSE

\* data before line 369 has run
NoData == [isArray |-> FALSE, items |-> <<>>, set |-> FALSE]

\* a cached list counts only when it holds two or more items
ClientCacheHitLong(cache, year) == year \in DOMAIN cache /\ Len(cache[year]) > 1

\* any cached list counts, the empty one too
ClientCacheHitAny(cache, year) == year \in DOMAIN cache

\* cached && cached.length > 0
ClientCacheHit(cache, year) == year \in DOMAIN cache /\ Len(cache[year]) > 0

\* the cleanup of the previous run: isCurrent = false
Cleanup(runs) ==
  IF runs = <<>> THEN runs ELSE [runs EXCEPT ![Len(runs)].isCurrent = FALSE]

\* the effect of lines 351-385 for year: the cleanup of the previous run,
\* then fetchAchievement up to its first await
RunEffect(year) ==
  IF ClientCacheHit(cacheRef, year)
  THEN /\ items' = cacheRef[year]
       /\ status' = "success"
       /\ fx' = Append(Cleanup(fx),
                  [year |-> year, isCurrent |-> TRUE, pc |-> "done", end |-> "cached", calls |-> 0,
                   data |-> NoData])
  ELSE /\ status' = "loading"
       /\ items' = <<>>
       /\ fx' = Append(Cleanup(fx),
                  [year |-> year, isCurrent |-> TRUE, pc |-> "fetch", end |-> "", calls |-> 1,
                   data |-> NoData])

\* the first render: the effect runs for the initial year
Mount ==
  /\ fx = <<>>
  /\ RunEffect(currentYear)
  /\ UNCHANGED <<yearIndex, cacheRef, nNav, swipeVars, serverVars>>

\* setYearIndex(y => y + by), the render that follows, and the effect for
\* the new year
ChangeYear(by) ==
  /\ yearIndex' = yearIndex + by
  /\ nNav' = nNav + 1
  /\ RunEffect(YearAt(yearIndex + by))
  /\ UNCHANGED <<cacheRef, serverVars>>

handlePrev ==
  /\ fx # <<>>
  /\ nNav < MaxNav
  /\ IF yearIndex > 0 THEN ChangeYear(-1) /\ UNCHANGED swipeVars ELSE UNCHANGED vars

handleNext ==
  /\ fx # <<>>
  /\ nNav < MaxNav
  /\ IF yearIndex < (END_YEAR - START_YEAR + 1) - 1
     THEN ChangeYear(1) /\ UNCHANGED swipeVars
     ELSE UNCHANGED vars

handleKeyDown(key) ==
  IF key = "ArrowLeft" THEN handlePrev
  ELSE IF key = "ArrowRight" THEN handleNext
  ELSE fx # <<>> /\ UNCHANGED vars

\* no run is ever taken for stale
StaleNever(run) == FALSE

\* !isCurrent
Stale(run) == ~run.isCurrent

\* Array.isArray(data?.items) ? data.items : []
NextItems(body) == IF body.isArray THEN body.items ELSE <<>>

\* the catch block never reports the failure
CaughtSilently(i) ==
  /\ fx' = [fx EXCEPT ![i].pc = "done", ![i].end = "staleError"]
  /\ UNCHANGED <<items, status>>

\* the catch block of fetchAchievement in run i
Caught(i) ==
  IF Stale(fx[i])
  THEN /\ fx' = [fx EXCEPT ![i].pc = "done", ![i].end = "staleError"]
       /\ UNCHANGED <<items, status>>
  ELSE /\ fx' = [fx EXCEPT ![i].pc = "done", ![i].end = "failed"]
       /\ status' = "error"
       /\ UNCHANGED items

\* await fetch(`/api/achievement?year=${year}`) settles in run i
LookupSettled(i, outcome) ==
  /\ i \in 1..Len(fx)
  /\ fx[i].pc = "fetch"
  /\ IF outcome = "ok"
     THEN fx' = [fx EXCEPT ![i].pc = "json"] /\ UNCHANGED <<items, status>>
     ELSE Caught(i)
  /\ UNCHANGED <<yearIndex, cacheRef, nNav, swipeVars, serverVars>>

\* const data = await res.json()
Data(body) == [isArray |-> body.isArray, items |-> body.items, set |-> TRUE]

\* await res.json() settles in run i
LookupJsonSettled(i, resolved, body) ==
  /\ i \in 1..Len(fx)
  /\ fx[i].pc = "json"
  /\ IF ~resolved
     THEN Caught(i) /\ UNCHANGED cacheRef
     ELSE IF Stale(fx[i])
     THEN /\ fx' = [fx EXCEPT ![i].pc = "done", ![i].end = "stale", ![i].data = Data(body)]
          /\ UNCHANGED <<items, status, cacheRef>>
     ELSE LET nextItems == NextItems(body)
          IN /\ cacheRef' = (fx[i].year :> nextItems) @@ cacheRef
             /\ items' = nextItems
             /\ status' = "success"
             /\ fx' = [fx EXCEPT ![i].pc = "done", ![i].end = "stored", ![i].data = Data(body)]
  /\ UNCHANGED <<yearIndex, nNav, swipeVars, serverVars>>

\* Math.abs(delta)
Abs(n) == IF n < 0 THEN 0 - n ELSE n

\* a drag ends delta pixels from where it began: handlePointerUp, lines
\* 202-240 up to the setTimeout.  The drag began in handlePointerDown, which
\* ignores the pointer while a card is exiting or entering (line 191).
handlePointerUp(delta) ==
  /\ fx # <<>>
  /\ ~isExiting /\ ~isEntering
  /\ IF Abs(delta) < 80
     THEN UNCHANGED vars
     ELSE IF \/ (delta < 0 /\ yearIndex >= (END_YEAR - START_YEAR + 1) - 1)
             \/ (~(delta < 0) /\ yearIndex <= 0)
     THEN UNCHANGED vars
     ELSE /\ nNav < MaxNav
          /\ isExiting' = TRUE
          /\ exitDir' = IF delta < 0 THEN "left" ELSE "right"
          /\ UNCHANGED <<yearIndex, items, status, cacheRef, fx, nNav, isEntering, serverVars>>

\* the callback of window.setTimeout(..., ANIM_MS), lines 221-239: the year
\* changes, the render and the effect for the new year follow
ExitTimer ==
  /\ isExiting
  /\ ChangeYear(IF exitDir = "left" THEN 1 ELSE 0 - 1)
  /\ isExiting' = FALSE
  /\ exitDir' = "none"
  /\ isEntering' = TRUE

\* the inner window.setTimeout of lines 234-237, after the next frame
EnterTimer ==
  /\ isEntering
  /\ isEntering' = FALSE
  /\ UNCHANGED <<yearIndex, items, status, cacheRef, fx, nNav, isExiting, exitDir, serverVars>>

Keys == {"ArrowLeft", "ArrowRight", "Enter"}
Deltas == {0 - 80, 0 - 79, 79, 80}
Runs == 1..(MaxNav + 2)

\* The year changes by the buttons and the keys; every answer of the Lookup
\* Service.
NextClient ==
  \/ Mount
  \/ handlePrev
  \/ handleNext
  \/ \E k \in Keys : handleKeyDown(k)
  \/ \E i \in Runs, o \in {"reject", "ok", "notok"} : LookupSettled(i, o)
  \/ \E i \in Runs, b \in BOOLEAN, d \in LookupBodies : LookupJsonSettled(i, b, d)

Init == ServerInit /\ ClientInit

\* the requests and upstream answers the concurrent service is driven with
FewYearParams == { [has |-> TRUE, text |-> t] : t \in {<<"1">>, <<"1", "1">>, <<"-", "1">>} }
FewForceParams == {Absent, "1"}
FewPayloads ==
  { [kind |-> "undefined", text |-> <<>>] }
    \cup { [kind |-> "string", text |-> t] :
             t \in {<<>>, <<SP>>, JsonArrayText(1), JsonArrayText(MaxUpstreamItems)} }

\* Concurrent GETs over a shared cache, a moving clock and a changing
\* environment.
Next ==
  \/ \E d \in ClockSteps : Tick(d)
  \/ \E b \in BOOLEAN : SetApiKey(b)
  \/ \E r \in Slots, yp \in FewYearParams, fp \in FewForceParams : GetStart(r, yp, fp)
  \/ \E r \in Slots, o \in {"reject", "ok", "notok"} : FetchSettled(r, o)
  \/ \E r \in Slots, b \in BOOLEAN : TextSettled(r, b)
  \/ \E r \in Slots, b \in BOOLEAN, p \in FewPayloads : JsonSettled(r, b, p)

Spec == Init /\ [][Next]_vars

\* One handler at a time: ordinary requests, then one request with any year
\* and force parameter.
NextInput ==
  \/ Tick(CACHE_TTL_MS - 1)
  \/ \E yp \in (IF nGets < MaxGets - 1 THEN FewYearParams ELSE YearParams),
        fp \in (IF nGets < MaxGets - 1 THEN FewForceParams ELSE ForceParams) :
          GetStart(1, yp, fp)
  \/ \E o \in {"reject", "ok", "notok"} : FetchSettled(1, o)
  \/ \E b \in BOOLEAN : TextSettled(1, b)
  \/ \E b \in BOOLEAN, p \in FewPayloads : JsonSettled(1, b, p)

SpecInput == Init /\ [][NextInput]_vars

\* One handler at a time, ordinary requests, any upstream answer.
NextUpstream ==
  \/ \E d \in ClockSteps : Tick(d)
  \/ \E b \in BOOLEAN : SetApiKey(b)
  \/ \E yp \in FewYearParams, fp \in FewForceParams : GetStart(1, yp, fp)
  \/ \E o \in {"reject", "ok", "notok"} : FetchSettled(1, o)
  \/ \E b \in BOOLEAN : TextSettled(1, b)
  \/ \E b \in BOOLEAN, p \in Payloads : JsonSettled(1, b, p)

SpecUpstream == Init /\ [][NextUpstream]_vars

\* Overlapping GETs for one year, with two upstream answers
\* to tell the writers apart, and a clock that moves between the events.
RaceYearParams == { [has |-> TRUE, text |-> <<"1">>] }
RacePayloads ==
  { [kind |-> "string", text |-> t] : t \in {JsonArrayText(1), JsonArrayText(MaxUpstreamItems)} }

NextRace ==
  \/ Tick(1)
  \/ \E r \in Slots, yp \in RaceYearParams : GetStart(r, yp, Absent)
  \/ \E r \in Slots, o \in {"reject", "ok", "notok"} : FetchSettled(r, o)
  \/ \E r \in Slots, b \in BOOLEAN : TextSettled(r, b)
  \/ \E r \in Slots, b \in BOOLEAN, p \in RacePayloads : JsonSettled(r, b, p)

SpecRace == Init /\ [][NextRace]_vars

\* A single GET that reaches the parsing of the upstream text, over the
\* texts for coerceToStringArray.
CoercePayloads == { [kind |-> "string", text |-> t] : t \in CoerceTexts }

NextCoerce ==
  \/ \E yp \in RaceYearParams : nGets = 0 /\ GetStart(1, yp, Absent)
  \/ \E o \in {"reject", "ok", "notok"} : FetchSettled(1, o)
  \/ \E b \in BOOLEAN : TextSettled(1, b)
  \/ \E b \in BOOLEAN, p \in CoercePayloads : JsonSettled(1, b, p)

SpecCoerce == Init /\ [][NextCoerce]_vars

SpecClient == Init /\ [][NextClient]_vars

\* The year changes by the buttons, the keys and the drags with their
\* timers; the Lookup Service fails or answers with one list.
SwipeBodies == { [isArray |-> TRUE, items |-> << <<"A">> >>] }

NextSwipe ==
  \/ Mount
  \/ handlePrev
  \/ handleNext
  \/ \E k \in Keys : handleKeyDown(k)
  \/ \E d \in Deltas : handlePointerUp(d)
  \/ ExitTimer
  \/ EnterTimer
  \/ \E i \in Runs, o \in {"reject", "ok"} : LookupSettled(i, o)
  \/ \E i \in Runs, d \in SwipeBodies : LookupJsonSettled(i, TRUE, d)

SpecSwipe == Init /\ [][NextSwipe]_vars

\* some pending await of the Lookup Service call of some run settles
Settle ==
  \/ \E i \in Runs, o \in {"reject", "ok"} : LookupSettled(i, o)
  \/ \E i \in Runs, d \in SwipeBodies : LookupJsonSettled(i, TRUE, d)

\* The same, where the first effect runs, a pending exit timer fires and
\* every call of the Lookup Service resolves.
SpecSwipeLive ==
  /\ Init
  /\ [][NextSwipe]_vars
  /\ WF_vars(Mount)
  /\ WF_vars(ExitTimer)
  /\ WF_vars(Settle)

\* ------------------------------------------------------------------------
\* Properties of the Lookup Service
\* ------------------------------------------------------------------------

\* request number nGets + 1 arrives in slot r in this step
Arrived(r) == nGets' = nGets + 1 /\ req'[r].id = nGets + 1

\* the handler in slot r returns its response in this step
Completes(r) ==
  /\ req'[r].pc = "done"
  /\ req[r].pc # "done" \/ req'[r].id # req[r].id

\* the parsed year passed validation
Accepted(q) == ~q.year.nan /\ q.year.val >= 0

\* the force parameter asks for a refresh
Forced(q) == q.forceParam \in {"1", "true"}

\* C1: a GET without force for a year whose entry is younger than the TTL
\* returns 200 with the cached items, issues no upstream call and leaves the
\* cache as it is.
C1_FreshEntryServed ==
  [][\A r \in Slots :
       LET q == req'[r]
           y == q.year.val
       IN (Arrived(r) /\ Accepted(q) /\ ~Forced(q)
             /\ y \in DOMAIN YEAR_CACHE /\ clock - YEAR_CACHE[y].at < CACHE_TTL_MS)
          => /\ q.pc = "done"
             /\ q.resp = [status |-> 200, error |-> "", year |-> y,
                          items |-> YEAR_CACHE[y].items]
             /\ q.calls = 0
             /\ YEAR_CACHE' = YEAR_CACHE]_vars

\* a request was answered from the cache some time after the entry was written
C1_Witness ==
  \E r \in Slots :
    /\ req[r].pc = "done" /\ req[r].resp.status = 200 /\ req[r].calls = 0
    /\ req[r].year.val \in DOMAIN YEAR_CACHE
    /\ req[r].now > YEAR_CACHE[req[r].year.val].at
    /\ req[r].resp.items = YEAR_CACHE[req[r].year.val].items

\* the handler in slot r, past its first await, returns its response in this step
Settles(r) == req[r].pc \in {"fetch", "text", "json"} /\ req'[r].pc = "done"

\* C2 as stated: a forced GET for a valid year bypasses the cache check and
\* always leaves the stored entry for its year holding its own result.
C2_ForceAlwaysOverwrites ==
  [][\A r \in Slots :
       LET q == req'[r]
           y == q.year.val
       IN /\ (Arrived(r) /\ Accepted(q) /\ Forced(q))
             => ~(q.pc = "done" /\ q.resp.status = 200)
          /\ (Completes(r) /\ Accepted(q) /\ Forced(q))
             => /\ y \in DOMAIN YEAR_CACHE'
                /\ YEAR_CACHE'[y] = [at |-> q.now, items |-> q.resp.items]]_vars

\* C2, amended: a forced GET for a valid year never answers from the cache,
\* whatever entry exists: it goes upstream (or fails with 500 when the
\* credential is missing). When it ends with 200 the entry for its year is
\* overwritten with the returned items, stamped with the time the request
\* arrived; when it ends with an error the cache is left as it was.
C2_ForceBypassesAndOverwritesOnSuccess ==
  [][\A r \in Slots :
       LET q == req'[r]
           y == q.year.val
       IN /\ (Arrived(r) /\ Accepted(q) /\ Forced(q))
             => /\ YEAR_CACHE' = YEAR_CACHE
                /\ IF apiKey
                   THEN q.pc = "fetch" /\ q.calls = 1
                   ELSE /\ q.pc = "done" /\ q.calls = 0
                        /\ q.resp.status = 500
                        /\ q.resp.error = "Server missing GEMINI_API_KEY"
          /\ (Settles(r) /\ Forced(q))
             => IF q.resp.status = 200
                THEN YEAR_CACHE' =
                       [k \in DOMAIN YEAR_CACHE \cup {y} |->
                          IF k = y THEN [at |-> q.now, items |-> q.resp.items]
                          ELSE YEAR_CACHE[k]]
                ELSE YEAR_CACHE' = YEAR_CACHE]_vars

\* a request with force=true is upstream although a fresh entry for its year
\* is in the cache
C2_Witness ==
  \E r \in Slots :
    /\ req[r].pc = "fetch" /\ req[r].forceParam = "true" /\ req[r].calls = 1
    /\ req[r].year.val \in DOMAIN YEAR_CACHE
    /\ clock - YEAR_CACHE[req[r].year.val].at < CACHE_TTL_MS

\* a non-negative integer in decimal digits
IsDigitsText(t) == Len(t) > 0 /\ \A i \in 1..Len(t) : t[i] \in Digits

\* C3: a GET whose year parameter is missing or is not a non-negative integer
\* is answered with 400 "Invalid or missing year" without an upstream call.
C3_OnlyIntegersAccepted ==
  \A r \in Slots :
    (req[r].pc # "idle" /\ ~(req[r].yearParam.has /\ IsDigitsText(req[r].yearParam.text)))
      => /\ req[r].pc = "done"
         /\ req[r].calls = 0
         /\ req[r].resp.status = 400
         /\ req[r].resp.error = "Invalid or missing year"

\* C4: every cache entry and every 200 response holds at most 5 items.
C4_AtMostFiveItems ==
  /\ \A y \in DOMAIN YEAR_CACHE : Len(YEAR_CACHE[y].items) <= 5
  /\ \A r \in Slots : req[r].resp.status = 200 => Len(req[r].resp.items) <= 5

\* an upstream text with more than 5 entries was answered with 200 and cached
\* with exactly 5
C4_Witness ==
  \E r \in Slots :
    /\ req[r].pc = "done" /\ req[r].resp.status = 200 /\ req[r].calls = 1
    /\ req[r].rawText.kind = "string"
    /\ Len(coerceToStringArray(req[r].rawText.text)) > 5
    /\ Len(req[r].resp.items) = 5
    /\ req[r].year.val \in DOMAIN YEAR_CACHE
    /\ YEAR_CACHE[req[r].year.val].items = req[r].resp.items

\* empty, or nothing but whitespace
IsBlank(t) == \A i \in 1..Len(t) : t[i] \in JsWs

\* C5: an upstream answer whose text is empty or only whitespace ends the GET
\* with 502 "No content returned" and no cache write.
C5_BlankPayloadNoContent ==
  [][\A r \in Slots :
       LET q == req'[r]
       IN (Settles(r) /\ q.rawText.kind = "string" /\ IsBlank(q.rawText.text))
          => /\ q.resp.status = 502
             /\ q.resp.error = "No content returned"
             /\ YEAR_CACHE' = YEAR_CACHE]_vars

\* C6: no cache entry and no 200 response holds an empty list; an upstream
\* text that parses to an empty list ends the GET with 502 and no cache write.
C6_NoEmptyListCached ==
  [][/\ \A y \in DOMAIN YEAR_CACHE' : Len(YEAR_CACHE'[y].items) >= 1
     /\ \A r \in Slots :
          LET q == req'[r]
          IN /\ q.resp.status = 200 => Len(q.resp.items) >= 1
             /\ (Settles(r) /\ q.rawText.kind = "string"
                   /\ Len(coerceToStringArray(q.rawText.text)) = 0)
                => q.resp.status = 502 /\ YEAR_CACHE' = YEAR_CACHE]_vars

\* a non-empty upstream text that holds no entry ("[]") was answered with 502
\* "Empty content" and its year is not in the cache
C6_Witness ==
  \E r \in Slots :
    /\ req[r].pc = "done" /\ req[r].calls = 1
    /\ req[r].rawText.kind = "string" /\ req[r].rawText.text = <<"[", "]">>
    /\ req[r].resp.status = 502 /\ req[r].resp.error = "Empty content"
    /\ req[r].year.val \notin DOMAIN YEAR_CACHE

\* C10: while the credential is missing no upstream call starts: a GET for a
\* valid year that is forced, or finds no entry younger than the TTL, returns
\* 500 "Server missing GEMINI_API_KEY" and leaves the cache as it is.
C10_MissingKeyNoUpstream ==
  [][\A r \in Slots :
       LET q == req'[r]
           y == q.year.val
       IN ~apiKey
          => /\ ~(Arrived(r) /\ q.calls > 0)
             /\ req'[r].id = req[r].id => q.calls = req[r].calls
             /\ (Arrived(r) /\ Accepted(q)
                   /\ (Forced(q) \/ y \notin DOMAIN YEAR_CACHE
                         \/ clock - YEAR_CACHE[y].at >= CACHE_TTL_MS))
                => /\ q.pc = "done" /\ q.calls = 0
                   /\ q.resp.status = 500
                   /\ q.resp.error = "Server missing GEMINI_API_KEY"
                   /\ YEAR_CACHE' = YEAR_CACHE]_vars

\* a forced request was refused with 500 for the missing credential while an
\* entry for its year, written when the credential was there, is in the cache
C10_Witness ==
  \E r \in Slots :
    /\ req[r].pc = "done" /\ req[r].calls = 0 /\ req[r].forceParam = "1"
    /\ req[r].resp.status = 500 /\ req[r].resp.error = "Server missing GEMINI_API_KEY"
    /\ req[r].year.val \in DOMAIN YEAR_CACHE
    /\ ~apiKey

\* C11: nothing coalesces GETs for one year: a non-forced GET that finds no
\* entry younger than the TTL goes upstream with one call of its own, whatever
\* other requests are in flight, and each request that ends with 200 leaves
\* the entry of its year holding its own items, so the last writer wins.
C11_NoCoalescingLastWriterWins ==
  [][\A r \in Slots :
       LET q == req'[r]
           y == q.year.val
       IN /\ (Arrived(r) /\ Accepted(q) /\ ~Forced(q) /\ apiKey
                /\ ~(y \in DOMAIN YEAR_CACHE /\ clock - YEAR_CACHE[y].at < CACHE_TTL_MS))
             => q.pc = "fetch" /\ q.calls = 1
          /\ (Settles(r) /\ q.resp.status = 200)
             => y \in DOMAIN YEAR_CACHE' /\ YEAR_CACHE'[y].items = q.resp.items]_vars

\* two requests for one year both went upstream and both ended with 200,
\* with different items; the cache holds the items of one of them
C11_Witness ==
  \E r1 \in Slots, r2 \in Slots :
    /\ r1 # r2
    /\ req[r1].pc = "done" /\ req[r2].pc = "done"
    /\ req[r1].resp.status = 200 /\ req[r2].resp.status = 200
    /\ req[r1].calls = 1 /\ req[r2].calls = 1
    /\ ~req[r1].force /\ ~req[r2].force
    /\ req[r1].year = req[r2].year
    /\ req[r1].resp.items # req[r2].resp.items
    /\ YEAR_CACHE[req[r1].year.val].items = req[r2].resp.items

\* the response is the error code with message error
IsError(resp, code, error) == resp.status = code /\ resp.error = error /\ resp.items = <<>>

\* C12: every GET ends with one response that never changes afterwards, and
\* its status follows the cause: 400 for a year parameter that is missing or
\* is not a non-negative integer; 200 from a fresh entry; 500 for the missing credential; 500
\* "Unexpected server error" when the upstream call is rejected, when a body
\* cannot be read or decoded, or when the payload is not a string; 502 for an
\* upstream non-2xx status, for a missing or empty payload and for a payload
\* that parses to nothing; otherwise 200.
C12_OneResponseByCause ==
  [][\A r \in Slots :
       LET q == req'[r]
           o == req[r]
           y == q.year.val
       IN /\ Arrived(r)
             => IF ~(q.yearParam.has /\ IsDigitsText(q.yearParam.text))
                  THEN q.pc = "done" /\ IsError(q.resp, 400, "Invalid or missing year")
                ELSE IF ~Forced(q) /\ y \in DOMAIN YEAR_CACHE
                          /\ clock - YEAR_CACHE[y].at < CACHE_TTL_MS
                  THEN q.pc = "done" /\ q.resp.status = 200
                ELSE IF ~apiKey
                  THEN q.pc = "done" /\ IsError(q.resp, 500, "Server missing GEMINI_API_KEY")
                ELSE q.pc = "fetch" /\ q.resp.status = 0
          /\ (o.pc = "fetch" /\ q.pc # "fetch")
             => \/ q.pc = "done" /\ IsError(q.resp, 500, "Unexpected server error")
                \/ q.pc \in {"json", "text"} /\ q.resp.status = 0
          /\ (o.pc = "text" /\ q.pc # "text")
             => /\ q.pc = "done"
                /\ \/ IsError(q.resp, 502, "Upstream error")
                   \/ IsError(q.resp, 500, "Unexpected server error")
          /\ (o.pc = "json" /\ q.pc # "json")
             => /\ q.pc = "done"
                /\ CASE q.rawText.kind = "unset" -> IsError(q.resp, 500, "Unexpected server error")
                     [] q.rawText.kind = "nonstring" -> IsError(q.resp, 500, "Unexpected server error")
                     [] q.rawText.kind = "undefined" -> IsError(q.resp, 502, "No content returned")
                     [] q.rawText.kind = "string" ->
                          IF q.rawText.text = <<>>
                            THEN IsError(q.resp, 502, "No content returned")
                          ELSE IF Len(coerceToStringArray(q.rawText.text)) = 0
                            THEN IsError(q.resp, 502, "Empty content")
                          ELSE q.resp.status = 200 /\ q.resp.error = ""
          /\ (o.pc = "done" /\ ~Arrived(r)) => q = o
          /\ q.pc = "done" => q.resp.status \in {200, 400, 500, 502}]_vars

\* C13: a GET makes at most one upstream call: the call is made when the
\* request passes the cache and credential checks and is never repeated,
\* whatever the upstream does; a request answered on arrival (400, cache hit,
\* missing credential) makes none.
C13_AtMostOneUpstreamCall ==
  [][\A r \in Slots :
       LET q == req'[r]
           o == req[r]
       IN /\ q.calls <= 1
          /\ Arrived(r) => (q.calls = 1 <=> q.pc = "fetch")
          /\ (Arrived(r) /\ q.pc = "done") => q.calls = 0
          /\ ~Arrived(r) => q.calls = o.calls]_vars

\* the upstream call was rejected and the request ended with 500 after its
\* single call
C13_Witness ==
  \E r \in Slots :
    /\ req[r].pc = "done" /\ req[r].calls = 1
    /\ req[r].rawText.kind = "unset"
    /\ req[r].resp.status = 500 /\ req[r].resp.error = "Unexpected server error"

\* C15: a non-forced GET for a valid year is answered from the cache exactly
\* when the year has an entry and the request time minus its cachedAt is
\* below 604800000 ms; at 604800000 ms or more the request goes on to the
\* credential check and upstream.
C15_ServedExactlyWithinSevenDays ==
  [][\A r \in Slots :
       LET q == req'[r]
           y == q.year.val
           fresh == y \in DOMAIN YEAR_CACHE /\ clock - YEAR_CACHE[y].at < 604800000
       IN (Arrived(r) /\ Accepted(q) /\ ~Forced(q))
          => /\ q.now = clock
             /\ fresh => /\ q.pc = "done" /\ q.calls = 0
                         /\ q.resp.status = 200
                         /\ q.resp.items = YEAR_CACHE[y].items
             /\ ~fresh => IF apiKey THEN q.pc = "fetch" /\ q.calls = 1
                          ELSE /\ q.pc = "done"
                               /\ IsError(q.resp, 500, "Server missing GEMINI_API_KEY")]_vars

\* a non-forced request that arrived exactly 7 days after the entry of its
\* year was written is upstream
C15_Witness ==
  \E r \in Slots :
    /\ req[r].pc = "fetch" /\ ~req[r].force /\ req[r].calls = 1
    /\ req[r].year.val \in DOMAIN YEAR_CACHE
    /\ req[r].now - YEAR_CACHE[req[r].year.val].at = 604800000

\* C16: a GET that ends with 400, 500 or 502 leaves the cache as it was, old
\* entry of its year included; an entry changes only when a request for its
\* year ends with 200, and no entry is ever removed.
C16_FailureLeavesCacheAlone ==
  [][/\ \A r \in Slots :
          (Completes(r) /\ req'[r].resp.status # 200) => YEAR_CACHE' = YEAR_CACHE
     /\ \A y \in DOMAIN YEAR_CACHE : y \in DOMAIN YEAR_CACHE'
     /\ \A y \in DOMAIN YEAR_CACHE' :
          (y \notin DOMAIN YEAR_CACHE \/ YEAR_CACHE'[y] # YEAR_CACHE[y])
            => \E r \in Slots :
                 /\ Settles(r) /\ req'[r].resp.status = 200
                 /\ req'[r].year.val = y]_vars

\* a refresh of a year that has an entry failed with 502 after its upstream
\* call, and the older entry is still there
C16_Witness ==
  \E r \in Slots :
    /\ req[r].pc = "done" /\ req[r].calls = 1 /\ req[r].resp.status = 502
    /\ req[r].year.val \in DOMAIN YEAR_CACHE
    /\ YEAR_CACHE[req[r].year.val].at < req[r].now
    /\ Len(YEAR_CACHE[req[r].year.val].items) >= 1

\* the (start, end) pairs of the bracket-delimited substrings of text that
\* parse as a JSON array
ArraySpans(text) ==
  { p \in (1..Len(text)) \X (1..Len(text)) :
      /\ p[1] < p[2] /\ text[p[1]] = "[" /\ text[p[2]] = "]"
      /\ JsonParse(SubSeq(text, p[1], p[2])).ok
      /\ JsonParse(SubSeq(text, p[1], p[2])).kind = "array" }

\* the first of them
FirstArraySpan(text) ==
  CHOOSE p \in ArraySpans(text) :
    \A q \in ArraySpans(text) : p[1] < q[1] \/ (p[1] = q[1] /\ p[2] <= q[2])

\* the normalized string elements of the JSON array text
ArrayStrings(text) == NormalizeAll(JsonParse(text).elems)

\* the list C14 describes for text
ByPrecedence(text) ==
  IF JsonParse(text).ok /\ JsonParse(text).kind = "array" THEN ArrayStrings(text)
  ELSE IF ArraySpans(text) # {}
    THEN ArrayStrings(SubSeq(text, FirstArraySpan(text)[1], FirstArraySpan(text)[2]))
  ELSE FallbackSplit(text)

\* C14: the items a GET answers with are (the first 5 of) the whole text's
\* JSON array when it is one, else those of the first bracket-delimited
\* substring that parses as a JSON array when there is one, else the
\* line/bullet split; and the three texts of the description give
\* ["A","B"], ["Landed on the moon","Cured a disease"] and
\* ["First","Second","Third"].
C14_StrictPrecedence ==
  \A r \in Slots :
    (req[r].pc = "done" /\ req[r].rawText.kind = "string" /\ req[r].rawText.text # <<>>)
      => /\ req[r].resp.items = Slice0(ByPrecedence(req[r].rawText.text), 5)
         /\ req[r].rawText.text = TextArray
              => req[r].resp.items = <<<<"A">>, <<"B">>>>
         /\ req[r].rawText.text = TextIntro
              => req[r].resp.items = <<<<"L", "a", "n", "d", "e", "d", SP, "o", "n", SP, "t", "h", "e", SP, "m", "o", "o", "n">>, <<"C", "u", "r", "e", "d", SP, "a", SP, "d", "i", "s", "e", "a", "s", "e">>>>
         /\ req[r].rawText.text = TextLines
              => req[r].resp.items = <<<<"F", "i", "r", "s", "t">>, <<"S", "e", "c", "o", "n", "d">>, <<"T", "h", "i", "r", "d">>>>

\* the text goes down to the line/bullet split of lines 111-116
TakesFallback(text) ==
  /\ ~(JsonParse(text).ok /\ JsonParse(text).kind = "array")
  /\ ~(HasMatch(text) /\ JsonParse(Match0(text)).ok /\ JsonParse(Match0(text)).kind = "array")

\* C20: the list the line/bullet split produces holds no empty string and at
\* most 10 entries, and so no empty string is returned from it.
C20_FallbackItemsNonEmpty ==
  \A r \in Slots :
    (req[r].pc = "done" /\ req[r].rawText.kind = "string" /\ req[r].rawText.text # <<>>
       /\ TakesFallback(req[r].rawText.text))
      => /\ Len(FallbackSplit(req[r].rawText.text)) <= 10
         /\ \A i \in 1..Len(FallbackSplit(req[r].rawText.text)) :
              FallbackSplit(req[r].rawText.text)[i] # <<>>
         /\ \A i \in 1..Len(req[r].resp.items) : req[r].resp.items[i] # <<>>

\* C18: the cachedAt of a year's entry never decreases from one write to the
\* next.
C18_CachedAtNeverDecreases ==
  [][\A y \in DOMAIN YEAR_CACHE :
       y \in DOMAIN YEAR_CACHE' /\ YEAR_CACHE'[y].at >= YEAR_CACHE[y].at]_vars

\* ------------------------------------------------------------------------
\* Properties of the Achievement component
\* ------------------------------------------------------------------------

\* the effect starts a run in this step: a year is requested
Requested == Len(fx') = Len(fx) + 1

\* the year of the run that starts in this step
RequestedYear == fx'[Len(fx')].year

\* the client cache holds a non-empty list for year y
HasCachedItems(y) == y \in DOMAIN cacheRef /\ Len(cacheRef[y]) >= 1

\* an await of run i settles in this step
Resolves(i) == fx[i].pc \in {"fetch", "json"} /\ fx'[i].pc # fx[i].pc

\* run i ends in this step with the Lookup Service's body read
Succeeds(i) == fx[i].pc = "json" /\ fx'[i].pc = "done" /\ fx'[i].data.set

\* run i ends in this step without a body: rejection, non-success, unreadable
Fails(i) == fx[i].pc \in {"fetch", "json"} /\ fx'[i].pc = "done" /\ ~fx'[i].data.set

\* the items of the body that run i read
Returned(i) == IF fx'[i].data.isArray THEN fx'[i].data.items ELSE <<>>

\* C7: once the year has changed, whatever an earlier year's request settles
\* with (an ok or failed response, a read or unreadable body), in whatever
\* order, changes neither the displayed items nor the status (nor the cache).
C7_StaleResponseDiscarded ==
  [][\A i \in 1..Len(fx) :
       (i < Len(fx) /\ Resolves(i))
         => items' = items /\ status' = status /\ cacheRef' = cacheRef]_vars

\* the first year's body arrived after the second year's and was dropped:
\* the second year's items are shown and only they are cached
C7_Witness ==
  /\ Len(fx) >= 2
  /\ fx[2].end = "stored" /\ fx[1].end = "stale"
  /\ fx[1].data.items # fx[2].data.items
  /\ status = "success" /\ items = fx[2].data.items
  /\ fx[1].year \notin DOMAIN cacheRef

\* C8: a request for a year with a non-empty cached list sets status to
\* success and the items to that list in the same step, and its run makes no
\* call and is over: it never shows loading.
C8_CachedYearServedAtOnce ==
  [][/\ (Requested /\ HasCachedItems(RequestedYear))
        => /\ status' = "success"
           /\ items' = cacheRef[RequestedYear]
           /\ fx'[Len(fx')].calls = 0
           /\ fx'[Len(fx')].pc = "done"
     /\ \A i \in 1..Len(fx) :
          fx[i].pc = "done" => fx'[i].pc = "done" /\ fx'[i].calls = fx[i].calls]_vars

\* a year was left and requested again, and was served from the client cache
C8_Witness ==
  \E i \in 1..Len(fx) :
    /\ i > 1 /\ fx[i].end = "cached" /\ fx[i].calls = 0
    /\ status = "success" /\ items = cacheRef[fx[i].year] /\ Len(items) >= 1

\* C9 as stated: a request without a non-empty cached list sets loading and
\* makes one call; when the call comes back non-success the status becomes
\* error, when it comes back with a body the items are cached under the year
\* and the status becomes success.
C9_EveryResponseApplied ==
  [][/\ (Requested /\ ~HasCachedItems(RequestedYear))
        => status' = "loading" /\ fx'[Len(fx')].calls = 1
     /\ \A i \in 1..Len(fx) :
          /\ fx'[i].calls = fx[i].calls
          /\ Fails(i) => status' = "error"
          /\ Succeeds(i)
             => /\ fx[i].year \in DOMAIN cacheRef'
                /\ cacheRef'[fx[i].year] = Returned(i)
                /\ status' = "success"]_vars

\* C9, amended: a request without a non-empty cached list sets loading and
\* makes exactly one call, never repeated. While its year is still the
\* current one: a non-success sets status to error; a body has its items
\* (the empty list too, and the empty list for a body without an items array)
\* cached under the year and displayed, with status success. Once the year
\* has changed the outcome is dropped.
C9_CurrentResponseApplied ==
  [][/\ (Requested /\ ~HasCachedItems(RequestedYear))
        => status' = "loading" /\ fx'[Len(fx')].calls = 1 /\ fx'[Len(fx')].pc = "fetch"
     /\ \A i \in 1..Len(fx) :
          /\ fx'[i].calls = fx[i].calls
          /\ (Fails(i) /\ i = Len(fx))
             => status' = "error" /\ cacheRef' = cacheRef
          /\ (Succeeds(i) /\ i = Len(fx))
             => /\ cacheRef' = [k \in DOMAIN cacheRef \cup {fx[i].year} |->
                                  IF k = fx[i].year THEN Returned(i) ELSE cacheRef[k]]
                /\ items' = Returned(i)
                /\ status' = "success"
          /\ ((Fails(i) \/ Succeeds(i)) /\ i < Len(fx))
             => status' = status /\ items' = items /\ cacheRef' = cacheRef]_vars

\* the current year's call came back with an empty list, which is cached and
\* displayed with status success
C9_Witness ==
  \E i \in 1..Len(fx) :
    /\ i = Len(fx) /\ fx[i].end = "stored" /\ fx[i].calls = 1
    /\ fx[i].data.isArray /\ fx[i].data.items = <<>>
    /\ fx[i].year \in DOMAIN cacheRef /\ cacheRef[fx[i].year] = <<>>
    /\ status = "success" /\ items = <<>>

\* C19: once the year has stopped changing and the calls have resolved, the
\* status is success or error for the run of the final year, and stays so:
\* the component is not left in idle or loading.
C19_EventuallySettled ==
  <>[](/\ status \in {"success", "error"}
       /\ fx # <<>>
       /\ fx[Len(fx)].year = currentYear
       /\ fx[Len(fx)].pc = "done")

\* after a year change the first year's call has failed unseen and the
\* final year's call has failed too: the status is error
C19_Witness ==
  /\ Len(fx) >= 2
  /\ \A i \in 1..Len(fx) : fx[i].pc = "done"
  /\ fx[1].end = "staleError"
  /\ fx[Len(fx)].end = "failed" /\ fx[Len(fx)].year = currentYear
  /\ status = "error"
  /\ ~isExiting

\* ------------------------------------------------------------------------
\* Properties of Home
\* ------------------------------------------------------------------------

\* C17: the year index is always within 0..225 and the displayed year is one
\* of 1800..2025.
C17_YearIndexInRange ==
  /\ yearIndex \in 0..225
  /\ currentYear \in 1800..2025

====
